---- MODULE Spec2Model ----
(***************************************************************************)
(* A model of the PSN REST facade: the PSNClient singleton, the            *)
(* PSNUserProfile accessor with its four lazily fetched sub-resources,     *)
(* the lru_cache'd get_psn_user, and the route handlers of routes.py.      *)
(*                                                                         *)
(* The psnawp_api library is the environment: the outcome of every call    *)
(* into it (a value of the documented type, or an exception) is chosen     *)
(* nondeterministically from small sets.                                   *)
(***************************************************************************)
EXTENDS Integers, Sequences, FiniteSets, TLC

(***************************************************************************)
(* The state: the lru_cache of get_psn_user, the last response, the NPSSO   *)
(* environment variable, PSNClient._instance, and the outcome of every      *)
(* PSNClient() so far with the number of PSNAWP(npsso) calls that           *)
(* PSNClient.__new__ made (singleton_builds; the PSNAWP(...) calls of the   *)
(* accessors are logged in the response of the call that made them).        *)
(* workload is the caller that drives get_psn_user directly: the call       *)
(* number of the last use of every identifier it used, its hits and its     *)
(* calls for identifiers that had been evicted.                             *)
(***************************************************************************)
VARIABLES cache, resp, npsso, instance, constructions, singleton_builds, workload

vars == <<cache, resp, npsso, instance, constructions, singleton_builds, workload>>

(***************************************************************************)
(* Python values, tagged by type.                                          *)
(***************************************************************************)
None == [kind |-> "none"]
Str(s) == [kind |-> "str", s |-> s]
PyInt(n) == [kind |-> "int", n |-> n]
Bool(b) == [kind |-> "bool", b |-> b]
List(items) == [kind |-> "list", items |-> items]
Dict(d) == [kind |-> "dict", d |-> d]
Obj(attrs) == [kind |-> "obj", attrs |-> attrs]

Enum(cls, name) == [kind |-> "enum", cls |-> cls, name |-> name]
Timedelta(seconds) == [kind |-> "timedelta", seconds |-> seconds]

EmptyDict == Dict(<<>>)

\* bool(v): the truth value Python gives v in `if v`.
Truthy(v) ==
    CASE v.kind = "none" -> FALSE
      [] v.kind = "str"  -> v.s # ""
      [] v.kind = "int"  -> v.n # 0
      [] v.kind = "bool" -> v.b
      [] v.kind = "list" -> Len(v.items) > 0
      [] v.kind = "dict" -> DOMAIN v.d # {}
      [] OTHER           -> TRUE

\* v == 0 and v == False: true of the int 0 and of the bool False only.
EqZero(v) ==
    \/ v.kind = "int" /\ v.n = 0
    \/ v.kind = "bool" /\ v.b = FALSE

Pad2(n) == IF n < 10 THEN "0" \o ToString(n) ELSE ToString(n)

\* str(v): a str is itself, an Enum member prints as Class.NAME, a timedelta
\* as [D day[s], ]H:MM:SS, where the days are the whole days of the duration
\* (floored, so a negative duration has negative days) and "day" is plural
\* unless there is exactly one, forward or back.
PyStr(v) ==
    CASE v.kind = "str" -> v
      [] v.kind = "int" -> Str(ToString(v.n))
      [] v.kind = "bool" -> Str(IF v.b THEN "True" ELSE "False")
      [] v.kind = "none" -> Str("None")
      [] v.kind = "enum" -> Str(v.cls \o "." \o v.name)
      [] v.kind = "timedelta" ->
            Str((IF v.seconds \div 86400 = 0 THEN ""
                 ELSE ToString(v.seconds \div 86400)
                      \o (IF v.seconds \div 86400 \in {1, -1} THEN " day, "
                          ELSE " days, "))
                \o ToString((v.seconds % 86400) \div 3600) \o ":"
                \o Pad2((v.seconds \div 60) % 60) \o ":" \o Pad2(v.seconds % 60))

\* d.get(k, default) on a dict held as a function from keys to values.
DictGet(d, k, default) == IF k \in DOMAIN d THEN d[k] ELSE default

(***************************************************************************)
(* Identifiers and the outcomes of the upstream calls.                     *)
(***************************************************************************)
KnownIds == {"alice"}
UnknownIds == {"ghost"}
OnlineIds == KnownIds \cup UnknownIds

Raise == [kind |-> "raise"]

ProfileDocs ==
    { Dict([aboutMe |-> Str("hi"), avatars |-> List(<<"avatar-l">>),
            languages |-> List(<<"en">>), isPlus |-> Bool(TRUE),
            isOfficiallyVerified |-> Bool(FALSE)]),
      Dict([aboutMe |-> Str(""), avatars |-> List(<<>>),
            languages |-> None, isPlus |-> Bool(FALSE)]) }

PresenceDocs ==
    { Dict([availability |-> Str("availableToPlay"),
            primaryPlatformInfo |->
                Dict([onlineStatus |-> Str("online"), platform |-> Str("PS5"),
                      lastOnlineDate |-> Str("2025-01-01")])]),
      Dict([availability |-> Str("unavailable"),
            primaryPlatformInfo |-> None]) }

FriendshipDocs ==
    { Dict([friendsCount |-> PyInt(0), mutualFriendsCount |-> PyInt(2),
            friendRelation |-> Str("friend")]) }

TrophySummaries ==
    { Obj([trophy_level |-> PyInt(312), progress |-> PyInt(0), tier |-> PyInt(4),
           earned_trophies |->
               Obj([platinum |-> PyInt(0), gold |-> PyInt(1),
                    silver |-> PyInt(2), bronze |-> PyInt(3)])]) }

\* An iterator returned by user.trophy_titles() or user.title_stats(): the
\* records it yields, and whether it raises after yielding them.
Iter(items, raises) == [kind |-> "iter", items |-> items, raises |-> raises]

TrophyTitle ==
    Obj([title_id |-> Str("NPWR1"), title_name |-> Str("Game"),
         platform |-> Enum("PlatformType", "PS5"),
         earned_trophies |-> Obj([total |-> PyInt(3)]),
         defined_trophies |-> Obj([total |-> PyInt(9)]), progress |-> PyInt(33)])
BrokenTrophyTitle == Obj([title_id |-> Str("NPWR2")])
TitleStat(seconds) ==
    Obj([name |-> Str("Game"), title_id |-> Str("CUSA1"), category |-> Str("ps5"),
         image_url |-> Str("http://img"), play_count |-> PyInt(4),
         first_played_date_time |-> Str("2024"),
         last_played_date_time |-> Str("2025"),
         play_duration |-> Timedelta(seconds)])
BrokenTitleStat == Obj([name |-> Str("Game")])

TrophyTitleIters ==
    { Iter(<<>>, FALSE), Iter(<<TrophyTitle, BrokenTrophyTitle>>, FALSE),
      Iter(<<TrophyTitle>>, TRUE) }
TitleStatIters ==
    { Iter(<<>>, FALSE), Iter(<<BrokenTitleStat, TitleStat(3725), TitleStat(90000)>>, FALSE),
      Iter(<<TitleStat(3725)>>, TRUE) }

\* What one run of a handler meets upstream: the outcome of the account lookup
\* PSNAWP(os.getenv("NPSSO")).user(online_id=...) ("auth" when PSNAWP(...)
\* raises, "raise" when .user(...) does), of the four fetches, of is_blocked(),
\* of trophy_titles(), of title_stats(), of trophy_titles_for_title() and of
\* trophies().
NoEnv ==
    [lookup |-> "raise", profile |-> Raise, presence |-> Raise,
     friendship |-> Raise, trophy |-> Raise, blocked |-> Raise,
     titles |-> Raise, stats |-> Raise, titles_for |-> Raise, trophies |-> Raise]

\* The lookup outcomes accessor a can meet.  A cached user is not looked up
\* again; an unknown identifier is never resolved.
Lookups(a) ==
    IF a.user # None THEN {"ok"}
    ELSE IF a.online_id \in UnknownIds THEN {"raise", "auth"}
    ELSE {"ok", "raise", "auth"}

\* The outcomes a fetch into slot can meet: only an empty slot is fetched.
Outcomes(a, slot, docs) == IF a[slot] = None THEN docs \cup {Raise} ELSE {Raise}

\* Handle(env) for some environment a handler calling get_full_profile on
\* accessor a can meet; environments the handler cannot tell apart are met
\* once.
MeetFull(a, Handle(_)) ==
    \E l \in Lookups(a) :
        IF l # "ok" THEN Handle([NoEnv EXCEPT !.lookup = l])
        ELSE \E p \in Outcomes(a, "profile_data", ProfileDocs),
                q \in Outcomes(a, "presence_data", PresenceDocs),
                f \in Outcomes(a, "friendship_data", FriendshipDocs),
                t \in Outcomes(a, "trophy_summary_data", TrophySummaries),
                b \in {Bool(TRUE), Bool(FALSE), Raise} :
                 Handle([NoEnv EXCEPT !.lookup = l, !.profile = p, !.presence = q,
                                      !.friendship = f, !.trophy = t, !.blocked = b])

\* The same for a handler that reads the lazy property prop.
MeetRead(a, prop, Handle(_)) ==
    \E l \in Lookups(a) :
        IF l # "ok" THEN Handle([NoEnv EXCEPT !.lookup = l])
        ELSE CASE prop = "profile" ->
                    \E o \in Outcomes(a, "profile_data", ProfileDocs) :
                        Handle([NoEnv EXCEPT !.lookup = l, !.profile = o])
               [] prop = "presence" ->
                    \E o \in Outcomes(a, "presence_data", PresenceDocs) :
                        Handle([NoEnv EXCEPT !.lookup = l, !.presence = o])
               [] prop = "friendship" ->
                    \E o \in Outcomes(a, "friendship_data", FriendshipDocs) :
                        Handle([NoEnv EXCEPT !.lookup = l, !.friendship = o])
               [] prop = "trophy_summary" ->
                    \E o \in Outcomes(a, "trophy_summary_data", TrophySummaries) :
                        Handle([NoEnv EXCEPT !.lookup = l, !.trophy = o])

\* The same for the two listing handlers.
MeetTitles(a, Handle(_)) ==
    \E l \in Lookups(a) :
        IF l # "ok" THEN Handle([NoEnv EXCEPT !.lookup = l])
        ELSE \E t \in TrophyTitleIters \cup {Raise} :
                 Handle([NoEnv EXCEPT !.lookup = l, !.titles = t])
MeetStats(a, Handle(_)) ==
    \E l \in Lookups(a) :
        IF l # "ok" THEN Handle([NoEnv EXCEPT !.lookup = l])
        ELSE \E t \in TitleStatIters \cup {Raise} :
                 Handle([NoEnv EXCEPT !.lookup = l, !.stats = t])

LookupErrorText == "lookup failed"
AuthErrorText == "authentication failed"
AccountIdOf(id) == Str("acct-" \o id)

(***************************************************************************)
(* PSNUserProfile.  n_profile .. n_trophy count the calls of               *)
(* user.profile(), user.get_presence(), user.friendship() and              *)
(* user.trophy_summary() made by this accessor; n_client counts the        *)
(* PSNAWP(...) calls it made in the call under way.                        *)
(***************************************************************************)
PSNUserProfile(id) ==
    [online_id |-> id,
     user |-> None, account_id |-> None,
     profile_data |-> None, presence_data |-> None,
     friendship_data |-> None, trophy_summary_data |-> None,
     n_profile |-> 0, n_presence |-> 0, n_friendship |-> 0, n_trophy |-> 0,
     n_client |-> 0]

\* A property or method call: the accessor afterwards, and either the value
\* returned or the text of the exception raised.
Ret(a, v) == [a |-> a, raised |-> FALSE, v |-> v]
Throw(a, text) == [a |-> a, raised |-> TRUE, v |-> Str(text)]

\* The user property: when _user is None, PSNAWP(os.getenv("NPSSO")) builds
\* a client and client.user(online_id=...) looks the account up; either may
\* raise, and the exception is re-raised with nothing stored.
user(a, env) ==
    IF a.user = None
    THEN IF env.lookup = "auth"
         THEN Throw([a EXCEPT !.n_client = @ + 1], AuthErrorText)
         ELSE IF env.lookup = "ok"
         THEN LET u == Obj([account_id |-> AccountIdOf(a.online_id)])
              IN Ret([a EXCEPT !.user = u, !.account_id = u.attrs.account_id,
                               !.n_client = @ + 1], u)
         ELSE Throw([a EXCEPT !.n_client = @ + 1], LookupErrorText)
    ELSE Ret(a, a.user)

account_id(a, env) ==
    IF a.account_id = None
    THEN LET Looked(u) ==
                 IF u.raised THEN u
                 ELSE Ret([u.a EXCEPT !.account_id = u.v.attrs.account_id],
                          u.v.attrs.account_id)
         IN Looked(user(a, env))
    ELSE Ret(a, a.account_id)

\* LazyFetch with the except branch leaving the slot None.
LazyFetch_forgets_failure(a, env, slot, counter, outcome) ==
    IF a[slot] = None
    THEN LET Looked(u) ==
                 IF u.raised
                 THEN Ret(u.a, EmptyDict)
                 ELSE IF outcome = Raise
                      THEN Ret([u.a EXCEPT ![counter] = @ + 1], EmptyDict)
                      ELSE Ret([u.a EXCEPT ![slot] = outcome, ![counter] = @ + 1],
                               outcome)
         IN Looked(user(a, env))
    ELSE Ret(a, a[slot])

\* LazyFetch with self.user read outside the try.
LazyFetch_propagates(a, env, slot, counter, outcome) ==
    IF a[slot] = None
    THEN LET Looked(u) ==
                 IF u.raised
                 THEN u
                 ELSE IF outcome = Raise
                      THEN Ret([u.a EXCEPT ![slot] = EmptyDict, ![counter] = @ + 1],
                               EmptyDict)
                      ELSE Ret([u.a EXCEPT ![slot] = outcome, ![counter] = @ + 1],
                               outcome)
         IN Looked(user(a, env))
    ELSE Ret(a, a[slot])

\* The shape of the four lazy properties: fetch when the slot is None, store
\* the result, store {} when the lookup or the fetch raises.
LazyFetch(a, env, slot, counter, outcome) ==
    IF a[slot] = None
    THEN LET Looked(u) ==
                 IF u.raised
                 THEN Ret([u.a EXCEPT ![slot] = EmptyDict], EmptyDict)
                 ELSE IF outcome = Raise
                      THEN Ret([u.a EXCEPT ![slot] = EmptyDict, ![counter] = @ + 1],
                               EmptyDict)
                      ELSE Ret([u.a EXCEPT ![slot] = outcome, ![counter] = @ + 1],
                               outcome)
         IN Looked(user(a, env))
    ELSE Ret(a, a[slot])

profile(a, env) == LazyFetch(a, env, "profile_data", "n_profile", env.profile)
presence(a, env) == LazyFetch(a, env, "presence_data", "n_presence", env.presence)
friendship(a, env) ==
    LazyFetch(a, env, "friendship_data", "n_friendship", env.friendship)
trophy_summary(a, env) ==
    LazyFetch(a, env, "trophy_summary_data", "n_trophy", env.trophy)

\* x.get(k, default) where x may not be a dict: the AttributeError is caught
\* by the caller's try and replaced by onError.
TryGet(x, k, default, onError) ==
    IF x.kind = "dict" THEN DictGet(x.d, k, default) ELSE onError

\* x.attr where x may be the {} stored after a failure: same.
TryAttr(x, attr, onError) ==
    IF x.kind = "obj" /\ attr \in DOMAIN x.attrs THEN x.attrs[attr] ELSE onError

\* r.get(k, default) on the dict a lazy property returned.
Get(r, k, default) == Ret(r.a, DictGet(r.v.d, k, default))

get_about_me(a, env) == Get(profile(a, env), "aboutMe", Str(""))
get_avatars(a, env) == Get(profile(a, env), "avatars", List(<<>>))
get_languages(a, env) == Get(profile(a, env), "languages", List(<<>>))
get_is_plus(a, env) == Get(profile(a, env), "isPlus", Bool(FALSE))
get_is_officially_verified(a, env) ==
    Get(profile(a, env), "isOfficiallyVerified", Bool(FALSE))

\* get_account_id with the defensive default of the other getters.
get_account_id_defaulting(a, env) ==
    LET Read(r) == IF r.raised THEN Ret(r.a, Str("")) ELSE r
    IN Read(account_id(a, env))

get_account_id(a, env) == account_id(a, env)

\* r.get("primaryPlatformInfo", {}).get(k, "") inside try/except.
PlatformInfo(r, k) ==
    Ret(r.a, TryGet(DictGet(r.v.d, "primaryPlatformInfo", EmptyDict), k,
                    Str(""), Str("")))

get_online_status(a, env) == PlatformInfo(presence(a, env), "onlineStatus")
get_platform(a, env) == PlatformInfo(presence(a, env), "platform")
get_last_online_date(a, env) == PlatformInfo(presence(a, env), "lastOnlineDate")
get_availability(a, env) == Get(presence(a, env), "availability", Str(""))

get_friends_count(a, env) == Get(friendship(a, env), "friendsCount", PyInt(0))
get_mutual_friends_count(a, env) ==
    Get(friendship(a, env), "mutualFriendsCount", PyInt(0))
get_friend_relation(a, env) == Get(friendship(a, env), "friendRelation", Str(""))

get_is_blocking(a, env) ==
    LET Looked(u) ==
            IF u.raised \/ env.blocked = Raise THEN Ret(u.a, Bool(FALSE))
            ELSE Ret(u.a, env.blocked)
    IN Looked(user(a, env))

\* r.attr on the trophy summary inside try/except.
Attr(r, attr, default) == Ret(r.a, TryAttr(r.v, attr, default))

get_trophy_level(a, env) == Attr(trophy_summary(a, env), "trophy_level", PyInt(0))
get_trophy_progress(a, env) == Attr(trophy_summary(a, env), "progress", PyInt(0))
get_trophy_tier(a, env) == Attr(trophy_summary(a, env), "tier", PyInt(0))

ZeroEarned ==
    Dict([platinum |-> PyInt(0), gold |-> PyInt(0),
          silver |-> PyInt(0), bronze |-> PyInt(0)])

\* The four counts of earned, or the all-zero counts when reading one fails.
EarnedCounts(earned) ==
    IF earned.kind = "obj"
       /\ {"platinum", "gold", "silver", "bronze"} \subseteq DOMAIN earned.attrs
    THEN Dict([k \in {"platinum", "gold", "silver", "bronze"} |-> earned.attrs[k]])
    ELSE ZeroEarned

get_earned_trophies(a, env) ==
    LET Read(r) == Ret(r.a, EarnedCounts(TryAttr(r.v, "earned_trophies", None)))
    IN Read(trophy_summary(a, env))

(***************************************************************************)
(* get_full_profile: the getters in the order of the dict literal, then the *)
(* comprehension that drops the values failing `v or v == 0 or v == False`. *)
(***************************************************************************)
ProfileKeys ==
    << "online_id", "account_id", "about_me", "avatars", "languages", "is_plus",
       "is_officially_verified", "online_status", "platform", "last_online",
       "availability", "friends_count", "mutual_friends_count", "friend_relation",
       "is_blocking", "trophy_level", "trophy_progress", "trophy_tier",
       "earned_trophies" >>

Getter(k, a, env) ==
    CASE k = "online_id"              -> Ret(a, Str(a.online_id))
      [] k = "account_id"             -> get_account_id(a, env)
      [] k = "about_me"               -> get_about_me(a, env)
      [] k = "avatars"                -> get_avatars(a, env)
      [] k = "languages"              -> get_languages(a, env)
      [] k = "is_plus"                -> get_is_plus(a, env)
      [] k = "is_officially_verified" -> get_is_officially_verified(a, env)
      [] k = "online_status"          -> get_online_status(a, env)
      [] k = "platform"               -> get_platform(a, env)
      [] k = "last_online"            -> get_last_online_date(a, env)
      [] k = "availability"           -> get_availability(a, env)
      [] k = "friends_count"          -> get_friends_count(a, env)
      [] k = "mutual_friends_count"   -> get_mutual_friends_count(a, env)
      [] k = "friend_relation"        -> get_friend_relation(a, env)
      [] k = "is_blocking"            -> get_is_blocking(a, env)
      [] k = "trophy_level"           -> get_trophy_level(a, env)
      [] k = "trophy_progress"        -> get_trophy_progress(a, env)
      [] k = "trophy_tier"            -> get_trophy_tier(a, env)
      [] k = "earned_trophies"        -> get_earned_trophies(a, env)

RECURSIVE Assemble(_, _, _, _)
Assemble(i, a, env, m) ==
    IF i > Len(ProfileKeys) THEN Ret(a, m)
    ELSE LET Got(r) ==
                 IF r.raised THEN r
                 ELSE Assemble(i + 1, r.a, env, m @@ (ProfileKeys[i] :> r.v))
         IN Got(Getter(ProfileKeys[i], a, env))

\* The comprehension with `if v` alone.
Keep_truthy(v) == Truthy(v)

Keep(v) == Truthy(v) \/ EqZero(v)

get_full_profile(a, env) ==
    LET Cleaned(r) ==
            IF r.raised THEN r
            ELSE Ret(r.a, Dict([k \in {k \in DOMAIN r.v : Keep(r.v[k])} |-> r.v[k]]))
    IN Cleaned(Assemble(1, a, env, <<>>))

(***************************************************************************)
(* get_psn_user under functools.lru_cache(maxsize=100).  The cache is the   *)
(* sequence of its entries, least recently used first.                      *)
(***************************************************************************)
maxsize == 100

Keys(c) == {c[i].key : i \in DOMAIN c}
IndexOf(c, id) == CHOOSE i \in DOMAIN c : c[i].key = id
Without(c, i) == SubSeq(c, 1, i - 1) \o SubSeq(c, i + 1, Len(c))

\* A cache whose hits build a new accessor in place of the stored one.
get_psn_user_uncached(c, id) ==
    LET e == [key |-> id, value |-> PSNUserProfile(id)]
    IN IF id \in Keys(c)
       THEN [cache |-> Append(Without(c, IndexOf(c, id)), e), value |-> e.value,
             hit |-> TRUE, raised |-> FALSE]
       ELSE [cache |-> Append(IF Len(c) >= maxsize THEN Tail(c) ELSE c, e),
             value |-> e.value, hit |-> FALSE, raised |-> FALSE]

\* A cache whose hits leave the order of the entries as it is.
get_psn_user_fifo(c, id) ==
    IF id \in Keys(c)
    THEN [cache |-> c, value |-> c[IndexOf(c, id)].value, hit |-> TRUE,
          raised |-> FALSE]
    ELSE LET e == [key |-> id, value |-> PSNUserProfile(id)]
             room == IF Len(c) >= maxsize THEN Tail(c) ELSE c
         IN [cache |-> Append(room, e), value |-> e.value, hit |-> FALSE,
             raised |-> FALSE]

\* A get_psn_user that resolves the account itself: an identifier upstream
\* does not know raises, and nothing is stored for it.
get_psn_user_resolving(c, id) ==
    IF id \notin KnownIds
    THEN [cache |-> c, value |-> PSNUserProfile(id), hit |-> FALSE,
          raised |-> TRUE, v |-> Str(LookupErrorText)]
    ELSE IF id \in Keys(c)
    THEN LET i == IndexOf(c, id)
         IN [cache |-> Append(Without(c, i), c[i]), value |-> c[i].value, hit |-> TRUE,
             raised |-> FALSE]
    ELSE LET e == [key |-> id, value |-> PSNUserProfile(id)]
             room == IF Len(c) >= maxsize THEN Tail(c) ELSE c
         IN [cache |-> Append(room, e), value |-> e.value, hit |-> FALSE,
             raised |-> FALSE]

\* PSNUserProfile(online_id=...) behind lru_cache: a hit returns the stored
\* accessor and makes it the most recently used, a miss builds and stores a
\* new one, evicting the least recently used at maxsize.  No upstream call is
\* made and the call returns.
get_psn_user(c, id) ==
    IF id \in Keys(c)
    THEN LET i == IndexOf(c, id)
         IN [cache |-> Append(Without(c, i), c[i]), value |-> c[i].value, hit |-> TRUE,
             raised |-> FALSE]
    ELSE LET e == [key |-> id, value |-> PSNUserProfile(id)]
             room == IF Len(c) >= maxsize THEN Tail(c) ELSE c
         IN [cache |-> Append(room, e), value |-> e.value, hit |-> FALSE,
             raised |-> FALSE]

\* The accessor is mutated in place: the entry just used holds the result.
\* The call is over, and with it the count of its PSNAWP(...) calls.
Store(c, a) == [c EXCEPT ![Len(c)].value = [a EXCEPT !.n_client = 0]]

\* The accessor get_psn_user(id) would return, without touching the cache.
Peek(c, id) ==
    IF id \in Keys(c) THEN c[IndexOf(c, id)].value ELSE PSNUserProfile(id)

(***************************************************************************)
(* routes.py                                                                *)
(***************************************************************************)
AVAILABLE_USER_FIELDS ==
    { "online_id", "account_id", "about_me", "avatars",
      "languages", "is_plus", "is_officially_verified",
      "online_status", "platform", "last_online", "availability",
      "friends_count", "mutual_friends_count", "friend_relation",
      "is_blocking",
      "trophy_level", "trophy_progress", "trophy_tier", "earned_trophies" }

OK(body) == [status |-> 200, body |-> body]
HTTPException(status, detail) ==
    [status |-> status, body |-> Dict([detail |-> Str(detail)])]

Slots == {"profile_data", "presence_data", "friendship_data", "trophy_summary_data"}

\* What a handler did for one user request: the request, what the accessor
\* held before (a cached user, the filled slots), what the handler met
\* upstream (the lookup outcome, the is_blocked() outcome, the calls that
\* raised), the argument of every PSNAWP(...) call the accessor made, and
\* what the accessor call returned or raised.
Item(online_id, fields, before, r, env) ==
    [online_id |-> online_id, fields |-> fields,
     had_user |-> before.user # None,
     had |-> {slot \in Slots : before[slot] # None},
     lookup |-> env.lookup,
     blocked |-> env.blocked,
     raising |-> {f \in {"profile", "presence", "friendship", "trophy"} :
                     env[f] = Raise},
     psnawp |-> [i \in 1..r.a.n_client |-> npsso],
     full |-> IF r.raised THEN None ELSE r.v,
     exc |-> IF r.raised THEN r.v ELSE None]

\* A request for one user, as the handlers receive it.
Request(online_id, fields) == [online_id |-> online_id, fields |-> fields]

Response(route, request, items, http) ==
    [route |-> route, request |-> request, items |-> items,
     status |-> http.status, body |-> http.body]

\* The comprehension as {k: profile.get(k) for k in valid_fields}.
Filter_get(prof, fields) ==
    LET valid_fields == SelectSeq(fields.items, LAMBDA f : f \in AVAILABLE_USER_FIELDS)
    IN Dict([k \in {valid_fields[i] : i \in DOMAIN valid_fields}
                 |-> DictGet(prof.d, k, None)])

\* {k: profile[k] for k in valid_fields if k in profile}
Filter(prof, fields) ==
    LET valid_fields == SelectSeq(fields.items, LAMBDA f : f \in AVAILABLE_USER_FIELDS)
    IN Dict([k \in {valid_fields[i] : i \in DOMAIN valid_fields} \cap DOMAIN prof.d
                 |-> prof.d[k]])

\* `if fields:` then the filtered mapping, else the whole profile.
Select(prof, fields) == IF Truthy(fields) THEN Filter(prof, fields) ELSE prof

\* What a handler returns: the cache with the accessor it used, as the call
\* r left it, stored in the entry g got, and the response.
Handled(route, online_id, fields, g, r, env, http) ==
    [cache |-> Store(g.cache, r.a),
     resp |-> Response(route, <<Request(online_id, fields)>>,
                       <<Item(online_id, fields, g.value, r, env)>>, http)]

\* The 404 of the except branch when the call raised, else 200 with body.
NotFoundOr(r, body) ==
    IF r.raised THEN HTTPException(404, "User not found: " \o r.v.s) ELSE OK(body)

\* The dependency: the accessor get_psn_user returns, or the 404 of the
\* except branch when it raises.
get_psn_profile(c, online_id) ==
    LET Got(g) ==
            IF g.raised
            THEN [cache |-> g.cache, value |-> None,
                  http |-> HTTPException(404, "User not found: " \o g.v.s)]
            ELSE [cache |-> g.cache, value |-> g.value,
                  http |-> [status |-> 0, body |-> None]]
    IN Got(get_psn_user(c, online_id))

get_user_profile(c, online_id, fields, env) ==
    LET Got(g) ==
            LET Assembled(r) ==
                    Handled("get_user_profile", online_id, fields, g, r, env,
                            NotFoundOr(r, Select(r.v, fields)))
            IN Assembled(get_full_profile(g.value, env))
    IN Got(get_psn_user(c, online_id))

\* A dict literal {k: profile[k] ...}: the first key missing from profile
\* raises KeyError, whose text is the quoted key.
RECURSIVE Subscripts(_, _, _, _)
Subscripts(prof, keys, i, m) ==
    IF i > Len(keys) THEN Ret(prof, Dict(m))
    ELSE IF keys[i] \in DOMAIN prof.d
         THEN Subscripts(prof, keys, i + 1, m @@ (keys[i] :> prof.d[keys[i]]))
         ELSE Throw(prof, "'" \o keys[i] \o "'")

Shortcut(route, keys, c, online_id, env) ==
    LET Got(g) ==
            LET Assembled(r) ==
                    LET Answer(body) ==
                            Handled(route, online_id, None, g, r, env,
                                    NotFoundOr(body, body.v))
                    IN Answer(IF r.raised THEN r
                              ELSE Subscripts(r.v, keys, 1, <<>>))
            IN Assembled(get_full_profile(g.value, env))
    IN Got(get_psn_user(c, online_id))

BasicKeys == <<"online_id", "about_me", "avatars">>
PresenceKeys ==
    <<"online_id", "online_status", "platform", "last_online", "availability">>
FriendsKeys ==
    <<"online_id", "friends_count", "mutual_friends_count", "friend_relation">>
TrophiesKeys ==
    <<"online_id", "trophy_level", "trophy_progress", "trophy_tier",
      "earned_trophies">>

get_user_basic_info(c, online_id, env) ==
    Shortcut("get_user_basic_info", BasicKeys, c, online_id, env)
get_user_presence(c, online_id, env) ==
    Shortcut("get_user_presence", PresenceKeys, c, online_id, env)
get_user_friends_info(c, online_id, env) ==
    Shortcut("get_user_friends_info", FriendsKeys, c, online_id, env)

\* As the other shortcuts, but trophy_tier is read with .get("trophy_tier", 0).
get_user_trophies(c, online_id, env) ==
    LET Got(g) ==
            LET Assembled(r) ==
                    LET Answer(body) ==
                            Handled("get_user_trophies", online_id, None, g, r, env,
                                    NotFoundOr(body, body.v))
                    IN Answer(IF r.raised THEN r
                              ELSE Subscripts(
                                       Dict(("trophy_tier" :>
                                                DictGet(r.v.d, "trophy_tier", PyInt(0)))
                                            @@ r.v.d),
                                       TrophiesKeys, 1, <<>>))
            IN Assembled(get_full_profile(g.value, env))
    IN Got(get_psn_user(c, online_id))

search_users(c, query, fields, env) ==
    LET Got(g) ==
            LET Assembled(r) ==
                    Handled("search_users", query, fields, g, r, env,
                            IF r.raised THEN OK(List(<<>>))
                            ELSE OK(List(<<Select(r.v, fields)>>)))
            IN Assembled(get_full_profile(g.value, env))
    IN Got(get_psn_user(c, query))

get_user_raw_profile(c, online_id, env) ==
    LET Got(g) ==
            LET Read(r) ==
                    Handled("get_user_raw_profile", online_id, None, g, r, env,
                            NotFoundOr(r, r.v))
            IN Read(profile(g.value, env))
    IN Got(get_psn_user(c, online_id))

\* PSNUserProfile.get_trophy_titles and get_title_stats: the iterator the
\* library returns, or [] when the lookup or the call raises.
get_trophy_titles(a, env) ==
    LET Looked(u) ==
            IF u.raised \/ env.titles = Raise THEN Ret(u.a, Iter(<<>>, FALSE))
            ELSE Ret(u.a, env.titles)
    IN Looked(user(a, env))
get_title_stats(a, env) ==
    LET Looked(u) ==
            IF u.raised \/ env.stats = Raise THEN Ret(u.a, Iter(<<>>, FALSE))
            ELSE Ret(u.a, env.stats)
    IN Looked(user(a, env))

\* The pass-through methods get_trophy_titles_for_title and get_trophies:
\* what user.trophy_titles_for_title(title_ids=...) or user.trophies(...)
\* returns, or [] when the lookup or the call raises.
get_trophy_titles_for_title(a, env, title_ids) ==
    LET Looked(u) ==
            IF u.raised \/ env.titles_for = Raise THEN Ret(u.a, Iter(<<>>, FALSE))
            ELSE Ret(u.a, env.titles_for)
    IN Looked(user(a, env))
get_trophies(a, env, np_communication_id, platform, include_progress) ==
    LET Looked(u) ==
            IF u.raised \/ env.trophies = Raise THEN Ret(u.a, Iter(<<>>, FALSE))
            ELSE Ret(u.a, env.trophies)
    IN Looked(user(a, env))

IterationErrorText == "iteration failed"

HasAttrs(o, names) == o.kind = "obj" /\ names \subseteq DOMAIN o.attrs

\* The records of the iterator projected in order; a record whose projection
\* raises is skipped.
Collect(items, project(_), wellFormed(_)) ==
    LET kept == SelectSeq(items, wellFormed)
    IN [i \in 1..Len(kept) |-> project(kept[i])]

TrophyTitleOK(t) ==
    /\ HasAttrs(t, {"title_id", "title_name", "platform", "earned_trophies",
                    "defined_trophies", "progress"})
    /\ HasAttrs(t.attrs.earned_trophies, {"total"})
    /\ HasAttrs(t.attrs.defined_trophies, {"total"})
TrophyTitleDict(t) ==
    Dict([title_id |-> t.attrs.title_id, title_name |-> t.attrs.title_name,
          platform |-> PyStr(t.attrs.platform),
          trophies_earned |-> t.attrs.earned_trophies.attrs.total,
          trophies_total |-> t.attrs.defined_trophies.attrs.total,
          progress |-> t.attrs.progress])

TitleStatOK(t) ==
    HasAttrs(t, {"name", "title_id", "category", "image_url", "play_count",
                 "first_played_date_time", "last_played_date_time",
                 "play_duration"})
TitleStatDict(t) ==
    Dict([name |-> t.attrs.name, title_id |-> t.attrs.title_id,
          platform |-> t.attrs.category, image_url |-> t.attrs.image_url,
          play_count |-> t.attrs.play_count,
          first_played |-> t.attrs.first_played_date_time,
          last_played |-> t.attrs.last_played_date_time,
          play_duration |-> PyStr(t.attrs.play_duration)])

\* The 404 of the outer except when iterating raised, else 200 with body.
ListingOr(r, what, body) ==
    IF r.v.raises
    THEN HTTPException(404, "Could not retrieve " \o what \o ": "
                            \o IterationErrorText)
    ELSE OK(body)

TitlesBody(online_id, title_list) ==
    Dict([online_id |-> Str(online_id), total_titles |-> PyInt(Len(title_list)),
          titles |-> List(title_list)])

route_get_trophy_titles(c, online_id, env) ==
    LET Got(g) ==
            LET Listed(r) ==
                    Handled("get_trophy_titles", online_id, None, g, r, env,
                            ListingOr(r, "trophy titles",
                                TitlesBody(online_id,
                                    Collect(r.v.items, TrophyTitleDict,
                                            TrophyTitleOK))))
            IN Listed(get_trophy_titles(g.value, env))
    IN Got(get_psn_user(c, online_id))

GamesBody(online_id, game_list) ==
    Dict([online_id |-> Str(online_id), total_games |-> PyInt(Len(game_list)),
          games |-> List(game_list)])

get_played_games(c, online_id, env) ==
    LET Got(g) ==
            LET Listed(r) ==
                    Handled("get_played_games", online_id, None, g, r, env,
                            ListingOr(r, "game stats",
                                GamesBody(online_id,
                                    Collect(r.v.items, TitleStatDict, TitleStatOK))))
            IN Listed(get_title_stats(g.value, env))
    IN Got(get_psn_user(c, online_id))

\* The pass with an except branch that appends nothing.
BatchItem_drops_failed(c, u, env, results) ==
    LET Got(g) ==
            LET Assembled(r) ==
                    [cache |-> Store(g.cache, r.a),
                     results |-> IF r.raised THEN results
                                 ELSE Append(results, Select(r.v, u.fields)),
                     item |-> Item(u.online_id, u.fields, g.value, r, env)]
            IN Assembled(get_full_profile(g.value, env))
    IN Got(get_psn_user(c, u.online_id))

\* One pass of the loop of batch_get_users for request u: the profile, or
\* the placeholder, is appended to results.
BatchItem(c, u, env, results) ==
    LET Got(g) ==
            LET Assembled(r) ==
                    [cache |-> Store(g.cache, r.a),
                     results |-> IF r.raised
                                 THEN Append(results,
                                             Dict([online_id |-> Str(u.online_id),
                                                   error |-> Str("User not found")]))
                                 ELSE Append(results, Select(r.v, u.fields)),
                     item |-> Item(u.online_id, u.fields, g.value, r, env)]
            IN Assembled(get_full_profile(g.value, env))
    IN Got(get_psn_user(c, u.online_id))

LazyProps == {"profile", "presence", "friendship", "trophy_summary"}

\* The lazy property a derived getter reads, "" when it reads none.
PropOf(k) ==
    CASE k \in {"about_me", "avatars", "languages", "is_plus",
                "is_officially_verified"} -> "profile"
      [] k \in {"online_status", "platform", "last_online", "availability"}
            -> "presence"
      [] k \in {"friends_count", "mutual_friends_count", "friend_relation"}
            -> "friendship"
      [] k \in {"trophy_level", "trophy_progress", "trophy_tier",
                "earned_trophies"} -> "trophy_summary"
      [] OTHER -> ""

SlotOf(prop) ==
    CASE prop = "profile" -> "profile_data"
      [] prop = "presence" -> "presence_data"
      [] prop = "friendship" -> "friendship_data"
      [] prop = "trophy_summary" -> "trophy_summary_data"

\* Reading one of the four lazy properties of get_psn_user(online_id).
\* The outcome of a direct call: status 500 stands for an exception that
\* reached the caller, 0 for a return.
Outcome(r) == [status |-> IF r.raised THEN 500 ELSE 0, body |-> r.v]

read_property(c, online_id, prop, env) ==
    LET Got(g) ==
            LET Read(r) ==
                    Handled(prop, online_id, None, g, r, env, Outcome(r))
            IN Read(CASE prop = "profile" -> profile(g.value, env)
                      [] prop = "presence" -> presence(g.value, env)
                      [] prop = "friendship" -> friendship(g.value, env)
                      [] prop = "trophy_summary" -> trophy_summary(g.value, env))
    IN Got(get_psn_user(c, online_id))

(***************************************************************************)
(* PSNClient: the singleton of _psnawp.py.                                  *)
(***************************************************************************)
\* PSNClient.__new__ with the NPSSO variable npsso (None when unset) and the
\* outcome of PSNAWP(npsso); inst is PSNClient._instance.
PSNClient_new(inst, env_npsso, built) ==
    IF inst = None
    THEN IF ~Truthy(env_npsso)
         THEN [instance |-> inst, raised |-> TRUE,
               v |-> Str("NPSSO environment variable must be set"), builds |-> 0]
         ELSE IF built
              THEN [instance |-> Obj([client |-> env_npsso]), raised |-> FALSE,
                    v |-> Obj([client |-> env_npsso]), builds |-> 1]
              ELSE [instance |-> Obj(<<>>), raised |-> TRUE,
                    v |-> Str("authentication failed"), builds |-> 1]
    ELSE [instance |-> inst, raised |-> FALSE, v |-> inst, builds |-> 0]

\* Calling get_psn_user(online_id).get_full_profile().
call_get_full_profile(c, online_id, env) ==
    LET Got(g) ==
            LET Assembled(r) ==
                    Handled("get_full_profile", online_id, None, g, r, env,
                            Outcome(r))
            IN Assembled(get_full_profile(g.value, env))
    IN Got(get_psn_user(c, online_id))

\* Calling the getter behind key k of the full profile on
\* get_psn_user(online_id).
call_getter(c, online_id, k, env) ==
    LET Got(g) ==
            LET Read(r) == Handled(k, online_id, None, g, r, env, Outcome(r))
            IN Read(Getter(k, g.value, env))
    IN Got(get_psn_user(c, online_id))

\* Handle(env) for some environment the getter behind key k can meet.
MeetGetter(a, k, Handle(_)) ==
    IF PropOf(k) # "" THEN MeetRead(a, PropOf(k), Handle)
    ELSE IF k = "online_id" THEN Handle(NoEnv)
    ELSE \E l \in Lookups(a) :
             IF l # "ok" THEN Handle([NoEnv EXCEPT !.lookup = l])
             ELSE \E b \in IF k = "is_blocking"
                          THEN {Bool(TRUE), Bool(FALSE), Raise} ELSE {Raise} :
                      Handle([NoEnv EXCEPT !.lookup = l, !.blocked = b])

MaxFields == 2
FieldInputs ==
    {None} \cup {List(f) : f \in UNION {[1..n -> {"about_me", "trophy_level", "nickname"}] :
                                          n \in 0..MaxFields}}

MaxBatch == 2
BatchRequests ==
    UNION {[1..n -> [online_id : OnlineIds,
                     fields : {None, List(<<"about_me", "nickname">>)}]] :
              n \in 0..MaxBatch}

NoResponse ==
    [route |-> "none", request |-> <<>>, items |-> <<>>, status |-> 0, body |-> None]

Init ==
    /\ cache = <<>>
    /\ resp = NoResponse
    /\ npsso = Str("npsso-1")
    /\ instance = None
    /\ constructions = <<>>
    /\ singleton_builds = 0
    /\ workload = [used |-> <<>>, hits |-> 0, reinserts |-> 0]

\* A handler runs to completion on one request, and its response is sent
\* before the next request is taken.
Idle == resp = NoResponse

Serve(handled) ==
    \E h \in {handled} :
        /\ cache' = h.cache
        /\ resp' = h.resp
        /\ UNCHANGED <<npsso, instance, constructions, singleton_builds, workload>>

GetUserProfile ==
    /\ Idle
    /\ \E id \in OnlineIds, fields \in FieldInputs :
        MeetFull(Peek(cache, id),
                 LAMBDA env : Serve(get_user_profile(cache, id, fields, env)))

GetUserBasicInfo ==
    /\ Idle
    /\ \E id \in OnlineIds :
        MeetFull(Peek(cache, id),
                 LAMBDA env : Serve(get_user_basic_info(cache, id, env)))

GetUserPresence ==
    /\ Idle
    /\ \E id \in OnlineIds :
        MeetFull(Peek(cache, id),
                 LAMBDA env : Serve(get_user_presence(cache, id, env)))

GetUserFriendsInfo ==
    /\ Idle
    /\ \E id \in OnlineIds :
        MeetFull(Peek(cache, id),
                 LAMBDA env : Serve(get_user_friends_info(cache, id, env)))

GetUserTrophies ==
    /\ Idle
    /\ \E id \in OnlineIds :
        MeetFull(Peek(cache, id),
                 LAMBDA env : Serve(get_user_trophies(cache, id, env)))

SearchUsers ==
    /\ Idle
    /\ \E id \in OnlineIds, fields \in FieldInputs :
        MeetFull(Peek(cache, id),
                 LAMBDA env : Serve(search_users(cache, id, fields, env)))

GetUserRawProfile ==
    /\ Idle
    /\ \E id \in OnlineIds :
        MeetRead(Peek(cache, id), "profile",
                 LAMBDA env : Serve(get_user_raw_profile(cache, id, env)))

GetTrophyTitles ==
    /\ Idle
    /\ \E id \in OnlineIds :
        MeetTitles(Peek(cache, id),
                   LAMBDA env : Serve(route_get_trophy_titles(cache, id, env)))

GetPlayedGames ==
    /\ Idle
    /\ \E id \in OnlineIds :
        MeetStats(Peek(cache, id),
                  LAMBDA env : Serve(get_played_games(cache, id, env)))

\* batch_get_users: the loop over users from request i on, one environment
\* per pass, and the response once the loop is over.
RECURSIVE BatchLoop(_, _, _, _, _)
BatchLoop(c, users, i, results, items) ==
    IF i > Len(users)
    THEN Serve([cache |-> c,
                resp |-> Response("batch_get_users", users, items,
                                  OK(List(results)))])
    ELSE MeetFull(Peek(c, users[i].online_id),
                  LAMBDA env :
                      \E b \in {BatchItem(c, users[i], env, results)} :
                          BatchLoop(b.cache, users, i + 1, b.results,
                                    Append(items, b.item)))

batch_get_users(c, users) == BatchLoop(c, users, 1, <<>>, <<>>)

BatchGetUsers ==
    /\ Idle
    /\ \E users \in BatchRequests : batch_get_users(cache, users)

ReadProperty ==
    /\ Idle
    /\ \E id \in OnlineIds, prop \in LazyProps :
        MeetRead(Peek(cache, id), prop,
                 LAMBDA env : Serve(read_property(cache, id, prop, env)))

SendResponse ==
    /\ resp # NoResponse
    /\ resp' = NoResponse
    /\ UNCHANGED <<cache, npsso, instance, constructions, singleton_builds, workload>>

GetFullProfile ==
    /\ Idle
    /\ \E id \in OnlineIds :
        MeetFull(Peek(cache, id),
                 LAMBDA env : Serve(call_get_full_profile(cache, id, env)))

CallGetter ==
    /\ Idle
    /\ \E id \in OnlineIds, i \in DOMAIN ProfileKeys :
        MeetGetter(Peek(cache, id), ProfileKeys[i],
                   LAMBDA env : Serve(call_getter(cache, id, ProfileKeys[i], env)))

\* get_psn_user(id).get_trophy_titles_for_title(title_ids) and
\* get_psn_user(id).get_trophies(np_communication_id, platform,
\* include_progress), called directly.
CallPassThrough ==
    /\ Idle
    /\ \E id \in OnlineIds :
        \E l \in Lookups(Peek(cache, id)) :
            LET Called(route, args, g, r, env) ==
                    Serve(Handled(route, id, args, g, r, env, Outcome(r)))
            IN \/ \E title_ids \in {List(<<Str("NPWR1")>>)},
                     o \in IF l = "ok" THEN TrophyTitleIters \cup {Raise}
                           ELSE {Raise} :
                      LET Met(g, env) ==
                              Called("get_trophy_titles_for_title", title_ids, g,
                                     get_trophy_titles_for_title(g.value, env,
                                                                 title_ids),
                                     env)
                      IN Met(get_psn_user(cache, id),
                             [NoEnv EXCEPT !.lookup = l, !.titles_for = o])
               \/ \E include_progress \in BOOLEAN,
                     o \in IF l = "ok"
                           THEN {Iter(<<>>, FALSE),
                                 Iter(<<Obj([trophy_id |-> PyInt(0),
                                             trophy_name |-> Str("First Steps")])>>,
                                      FALSE),
                                 Raise}
                           ELSE {Raise} :
                      LET Met(g, env) ==
                              Called("get_trophies",
                                     Dict([np_communication_id |-> Str("NPWR1"),
                                           platform |-> Enum("PlatformType", "PS5"),
                                           include_progress |->
                                               Bool(include_progress)]),
                                     g,
                                     get_trophies(g.value, env, Str("NPWR1"),
                                                  Enum("PlatformType", "PS5"),
                                                  Bool(include_progress)),
                                     env)
                      IN Met(get_psn_user(cache, id),
                             [NoEnv EXCEPT !.lookup = l, !.trophies = o])

(***************************************************************************)
(* get_psn_user called directly.  The caller numbers the identifiers in the *)
(* order of their first use; it uses new identifiers until the cache is     *)
(* within Slack entries of maxsize, and from then on also calls again for   *)
(* the first NumTracked identifiers, cached (a hit) or evicted.             *)
(***************************************************************************)
Overflow == 2
Slack == 1
NumTracked == 2
MaxHits == 2
MaxReinserts == 1

UserId(n) == "user" \o ToString(n)

Issued == Cardinality(DOMAIN workload.used)
Calls == Issued + workload.hits + workload.reinserts
Tracked == {UserId(n) : n \in 1..NumTracked}

Workload ==
    (IF Issued < maxsize + Overflow THEN {UserId(Issued + 1)} ELSE {})
    \cup (IF workload.hits < MaxHits /\ Len(cache) >= maxsize - Slack
          THEN Tracked \cap Keys(cache) ELSE {})
    \cup (IF workload.reinserts < MaxReinserts
          THEN (Tracked \cap DOMAIN workload.used) \ Keys(cache) ELSE {})

GetPsnUser ==
    /\ Idle
    /\ \E id \in Workload :
        \E g \in {get_psn_user(cache, id)} :
            /\ cache' = g.cache
            /\ resp' = Response("get_psn_user", <<Request(id, None)>>, <<>>,
                                [status |-> 0, body |-> Bool(g.hit)])
            /\ workload' =
                  [used |-> (id :> Calls + 1) @@ workload.used,
                   hits |-> workload.hits + (IF g.hit THEN 1 ELSE 0),
                   reinserts |-> workload.reinserts
                                 + (IF ~g.hit /\ id \in DOMAIN workload.used
                                    THEN 1 ELSE 0)]
            /\ UNCHANGED <<npsso, instance, constructions, singleton_builds>>

\* The same caller reading the raw profile of its first identifier:
\* get_psn_user(id).profile.
ReadTracked ==
    /\ Idle
    /\ \E id \in Workload \cap {UserId(1)}, prop \in {"profile"} :
        MeetRead(Peek(cache, id), prop,
                 LAMBDA env :
                     \E h \in {read_property(cache, id, prop, env)} :
                         /\ cache' = h.cache
                         /\ resp' = h.resp
                         /\ workload' =
                               [used |-> (id :> Calls + 1) @@ workload.used,
                                hits |-> workload.hits
                                         + (IF id \in Keys(cache) THEN 1 ELSE 0),
                                reinserts |->
                                    workload.reinserts
                                    + (IF id \notin Keys(cache)
                                          /\ id \in DOMAIN workload.used
                                       THEN 1 ELSE 0)]
                         /\ UNCHANGED <<npsso, instance, constructions, singleton_builds>>)

(***************************************************************************)
(* A caller that requests a known user and then identifiers upstream does   *)
(* not know, numbered in the order of their use, until the memoization      *)
(* overflows; once the known user is evicted it may request it again.       *)
(***************************************************************************)
\* GET /users/{online_id}/raw-profile for a known user that is not cached.
RequestKnown ==
    /\ Idle
    /\ \E id \in KnownIds \ Keys(cache) :
        /\ id \in DOMAIN workload.used => workload.reinserts < MaxReinserts
        /\ MeetRead(Peek(cache, id), "profile",
                    LAMBDA env :
                        \E h \in {get_user_raw_profile(cache, id, env)} :
                            /\ cache' = h.cache
                            /\ resp' = h.resp
                            /\ workload' =
                                  [used |-> (id :> Calls + 1) @@ workload.used,
                                   hits |-> workload.hits,
                                   reinserts |->
                                       workload.reinserts
                                       + (IF id \in DOMAIN workload.used
                                          THEN 1 ELSE 0)]
                            /\ UNCHANGED <<npsso, instance, constructions, singleton_builds>>)

\* GET /users/{online_id} for an identifier whose account lookup fails.
RequestUnknown ==
    /\ Idle
    /\ KnownIds \subseteq DOMAIN workload.used
    /\ Cardinality(DOMAIN workload.used \ KnownIds) < maxsize + Overflow
    /\ \E id \in {UserId(Cardinality(DOMAIN workload.used \ KnownIds) + 1)} :
        MeetFull(Peek(cache, id),
                 LAMBDA env :
                     /\ env.lookup # "ok"
                     /\ \E h \in {get_user_profile(cache, id, None, env)} :
                         /\ cache' = h.cache
                         /\ resp' = h.resp
                         /\ workload' =
                               [workload EXCEPT
                                   !.used = (id :> Calls + 1) @@ workload.used]
                         /\ UNCHANGED <<npsso, instance, constructions, singleton_builds>>)

\* The dependency get_psn_profile resolved for such an identifier.
GetPsnProfile ==
    /\ Idle
    /\ KnownIds \subseteq DOMAIN workload.used
    /\ Cardinality(DOMAIN workload.used \ KnownIds) < maxsize + Overflow
    /\ \E id \in {UserId(Cardinality(DOMAIN workload.used \ KnownIds) + 1)} :
        \E d \in {get_psn_profile(cache, id)} :
            /\ cache' = d.cache
            /\ resp' = Response("get_psn_profile", <<Request(id, None)>>, <<>>,
                                d.http)
            /\ workload' =
                  [workload EXCEPT !.used = (id :> Calls + 1) @@ workload.used]
            /\ UNCHANGED <<npsso, instance, constructions, singleton_builds>>

(***************************************************************************)
(* PSNClient() and the NPSSO variable of the process environment.           *)
(***************************************************************************)
MaxConstructions == 4
Credentials == {None, Str(""), Str("npsso-1"), Str("npsso-2")}

\* os.environ["NPSSO"] is set, changed or removed.
SetEnv ==
    /\ \E v \in Credentials \ {npsso} : npsso' = v
    /\ UNCHANGED <<cache, resp, instance, constructions, singleton_builds, workload>>

\* PSNClient(); PSNAWP(npsso) returns a client or raises.
Construct ==
    /\ Len(constructions) < MaxConstructions
    /\ \E built \in BOOLEAN :
        \E r \in {PSNClient_new(instance, npsso, built)} :
            /\ instance' = r.instance
            /\ singleton_builds' = singleton_builds + r.builds
            /\ constructions' =
                  Append(constructions,
                         [npsso |-> npsso, raised |-> r.raised, v |-> r.v])
    /\ UNCHANGED <<cache, resp, npsso, workload>>

Next ==
    \/ SendResponse
    \/ GetUserProfile
    \/ GetUserBasicInfo
    \/ GetUserPresence
    \/ GetUserFriendsInfo
    \/ GetUserTrophies
    \/ SearchUsers
    \/ GetUserRawProfile
    \/ GetTrophyTitles
    \/ GetPlayedGames

Spec == Init /\ [][Next]_vars

\* Batches, with the single-user requests that share their filter.
NextBatch ==
    \/ SendResponse
    \/ BatchGetUsers
    \/ GetUserProfile
    \/ SearchUsers
    \/ GetUserRawProfile

SpecBatch == Init /\ [][NextBatch]_vars

\* The accessor used on its own: property reads, getter calls and
\* get_full_profile on the accessors of get_psn_user.
NextAccessor ==
    \/ SendResponse
    \/ ReadProperty
    \/ CallGetter
    \/ GetFullProfile
    \/ CallPassThrough

SpecAccessor == Init /\ [][NextAccessor]_vars

\* The memoization under a caller that overflows it.
NextLRU ==
    \/ SendResponse
    \/ GetPsnUser

SpecLRU == Init /\ [][NextLRU]_vars

\* The memoization under requests for identifiers upstream does not know.
NextUnknown ==
    \/ SendResponse
    \/ RequestKnown
    \/ RequestUnknown
    \/ GetPsnProfile

SpecUnknown == Init /\ [][NextUnknown]_vars

\* The memoization under the same caller when it also reads the accessors.
NextWindow ==
    \/ SendResponse
    \/ GetPsnUser
    \/ ReadTracked

SpecWindow == Init /\ [][NextWindow]_vars

\* The singleton under constructions and changes of the credential.
NextClient ==
    \/ SetEnv
    \/ Construct

SpecClient == Init /\ [][NextClient]_vars

(***************************************************************************)
(* Properties.                                                              *)
(***************************************************************************)
DerivedKeys == {k \in AVAILABLE_USER_FIELDS : PropOf(k) # ""}

EnvField(prop) == IF prop = "trophy_summary" THEN "trophy" ELSE prop

\* The handler of item attempted the account lookup and the lookup raised.
\* The handler of item read the user property of an accessor without a user
\* (it called PSNAWP(...)) and the property raised, in PSNAWP(...) or in
\* .user(...).
LookupFailed(item) ==
    ~item.had_user /\ item.psnawp # <<>> /\ item.lookup # "ok"

\* The handler of item attempted the fetch of prop; the lookup it needs, or
\* the fetch, raised.
FetchFailed(item, prop) ==
    /\ SlotOf(prop) \notin item.had
    /\ LookupFailed(item) \/ EnvField(prop) \in item.raising

\* The accessor the (first) request of the last response was served from.
Served == Peek(cache, resp.request[1].online_id)

C1_AtMostOnce ==
    \A i \in DOMAIN cache :
        LET a == cache[i].value
        IN a.n_profile <= 1 /\ a.n_presence <= 1 /\ a.n_friendship <= 1
           /\ a.n_trophy <= 1

C1_KeepsStored ==
    \A i \in DOMAIN cache, j \in DOMAIN cache' :
        cache[i].key = cache'[j].key =>
            \A slot \in Slots :
                cache[i].value[slot] # None =>
                    /\ cache'[j].value[slot] = cache[i].value[slot]
                    /\ (/\ resp'.route \in LazyProps
                        /\ resp'.request[1].online_id = cache[i].key
                        /\ SlotOf(resp'.route) = slot)
                       => resp'.body = cache[i].value[slot]

\* C1: an accessor calls each of user.profile(), user.get_presence(),
\* user.friendship() and user.trophy_summary() at most once, whether the
\* call returned or raised, and once a slot holds a value every later read,
\* direct or through get_full_profile, leaves it as it is and returns it.
C1_FetchAtMostOnce == [](C1_AtMostOnce) /\ [][C1_KeepsStored]_vars

\* C1 witness: profile is read again on an accessor whose one call of
\* user.profile() raised; the {} stored then is returned.
C1_RereadAfterFailure ==
    /\ resp.route = "profile"
    /\ "profile_data" \in resp.items[1].had
    /\ Served.n_profile = 1
    /\ Served.profile_data = EmptyDict
    /\ resp.body = EmptyDict

Default(k) ==
    CASE k \in {"about_me", "online_status", "platform", "last_online",
                "availability", "friend_relation"} -> Str("")
      [] k \in {"avatars", "languages"} -> List(<<>>)
      [] k \in {"is_plus", "is_officially_verified"} -> Bool(FALSE)
      [] k \in {"friends_count", "mutual_friends_count", "trophy_level",
                "trophy_progress", "trophy_tier"} -> PyInt(0)
      [] k = "earned_trophies" -> ZeroEarned

\* C9: a lazy property never raises and is {} when its fetch, or the lookup
\* the fetch needs, raised; a getter derived from it never raises and returns
\* its default ("" / [] / False / 0 / all-zero counts) then.
C9_GettersSwallow ==
    /\ resp.route \in LazyProps =>
          /\ resp.status # 500
          /\ FetchFailed(resp.items[1], resp.route) => resp.body = EmptyDict
    /\ resp.route \in DerivedKeys =>
          /\ resp.status # 500
          /\ (\/ FetchFailed(resp.items[1], PropOf(resp.route))
              \/ Served[SlotOf(PropOf(resp.route))] = EmptyDict)
             => resp.body = Default(resp.route)

\* C9 witness: get_earned_trophies on an accessor whose account lookup raises
\* returns the all-zero counts.
C9_DefaultAfterLookupFailure ==
    /\ resp.route = "earned_trophies"
    /\ LookupFailed(resp.items[1])
    /\ resp.status = 0
    /\ resp.body = ZeroEarned

Contains(str, sub) ==
    \E i \in 1..(Len(str) - Len(sub) + 1) : SubSeq(str, i, i + Len(sub) - 1) = sub

Placeholder(online_id) ==
    Dict([online_id |-> Str(online_id), error |-> Str("User not found")])

\* C2: a batch of N requests answers 200 with a list of N results; result i
\* is the placeholder of request i when the lookup of request i raised, and
\* else the profile assembled for request i, filtered by the fields of
\* request i; nothing of another request enters it.
C2_BatchPerItem ==
    resp.route = "batch_get_users" =>
        /\ resp.status = 200
        /\ resp.body.kind = "list"
        /\ Len(resp.body.items) = Len(resp.request)
        /\ Len(resp.items) = Len(resp.request)
        /\ \A i \in DOMAIN resp.request :
              LET u == resp.request[i]
                  it == resp.items[i]
              IN /\ it.online_id = u.online_id
                 /\ (it.full = None) <=> LookupFailed(it)
                 /\ resp.body.items[i] =
                        IF LookupFailed(it) THEN Placeholder(u.online_id)
                        ELSE Select(it.full, u.fields)

\* C2 witness: a batch of two whose first request fails and whose second
\* request is answered with a profile.
C2_FailureThenProfile ==
    /\ resp.route = "batch_get_users"
    /\ Len(resp.request) = 2
    /\ resp.body.items[1] = Placeholder(resp.request[1].online_id)
    /\ resp.items[2].full # None
    /\ "about_me" \in DOMAIN resp.body.items[2].d

\* The mappings answered for a request with their item: the body of
\* get_user_profile, the element of search_users, the results of a batch
\* whose item assembled a profile.
Answered ==
    CASE resp.route = "get_user_profile" /\ resp.status = 200
            -> {<<resp.body, resp.items[1]>>}
      [] resp.route = "search_users" /\ Len(resp.body.items) > 0
            -> {<<resp.body.items[1], resp.items[1]>>}
      [] resp.route = "batch_get_users"
            -> {<<resp.body.items[i], resp.items[i]>> :
                   i \in {j \in DOMAIN resp.items : resp.items[j].full # None}}
      [] OTHER -> {}

\* C3: whatever the requested fields, the mapping answered has its keys
\* among the keys of the full profile that are in AVAILABLE_USER_FIELDS, each
\* with the value of the full profile, and the fields never turn a request
\* whose profile was assembled into an error.
C3_FilterIsSubset ==
    /\ \A p \in Answered :
          /\ DOMAIN p[1].d \subseteq DOMAIN p[2].full.d \cap AVAILABLE_USER_FIELDS
          /\ \A k \in DOMAIN p[1].d : p[1].d[k] = p[2].full.d[k]
    /\ resp.route = "get_user_profile" =>
          (resp.status = 200 <=> resp.items[1].full # None)
    /\ resp.route = "search_users" =>
          /\ resp.status = 200
          /\ Len(resp.body.items) = 1 <=> resp.items[1].full # None
    /\ resp.route = "batch_get_users" =>
          \A i \in DOMAIN resp.items :
              resp.items[i].full # None => "error" \notin DOMAIN resp.body.items[i].d

\* C3 witness: a request for a valid name and a misspelled name is answered
\* 200 with the one valid key, out of a profile that holds more keys.
C3_MixedFields ==
    /\ resp.route = "get_user_profile"
    /\ resp.status = 200
    /\ resp.request[1].fields = List(<<"trophy_level", "nickname">>)
    /\ "about_me" \in DOMAIN resp.items[1].full.d
    /\ DOMAIN resp.body.d = {"trophy_level"}

FullProfileRoutes ==
    {"get_user_profile", "get_user_basic_info", "get_user_presence",
     "get_user_friends_info", "get_user_trophies", "search_users",
     "batch_get_users"}

\* C4: an assembled profile holds no key whose value is "", [] or None, and
\* holds every key whose getter returned 0 or False, with that value.
C4_StripsEmptyKeepsZero ==
    resp.route \in FullProfileRoutes =>
        \A i \in DOMAIN resp.items :
            LET it == resp.items[i] IN
            it.full # None =>
                /\ \A k \in DOMAIN it.full.d :
                      it.full.d[k] \notin {Str(""), List(<<>>), None}
                /\ \A j \in DOMAIN ProfileKeys :
                      LET k == ProfileKeys[j]
                          v == Getter(k, Peek(cache, it.online_id),
                                      [NoEnv EXCEPT !.blocked = it.blocked]).v
                      IN /\ EqZero(v) => k \in DOMAIN it.full.d /\ it.full.d[k] = v
                         /\ v \in {Str(""), List(<<>>), None}
                               => k \notin DOMAIN it.full.d

\* C4 witness: a profile assembled from a profile document with aboutMe "",
\* avatars [] and languages None, and a failed trophy fetch: the three keys
\* are absent, trophy_level 0 and is_plus False are present.
C4_EmptyDroppedZeroKept ==
    /\ resp.route = "get_user_profile"
    /\ resp.status = 200
    /\ Served.profile_data.d = [aboutMe |-> Str(""), avatars |-> List(<<>>),
                                languages |-> None, isPlus |-> Bool(FALSE)]
    /\ Served.trophy_summary_data = EmptyDict
    /\ {"about_me", "avatars", "languages"} \cap DOMAIN resp.items[1].full.d = {}
    /\ resp.items[1].full.d["trophy_level"] = PyInt(0)
    /\ resp.items[1].full.d["is_plus"] = Bool(FALSE)

\* C6: GET /users/{id} whose account lookup raises answers 404 with a detail
\* that contains "not found", whatever the memoization and the accessor hold.
C6_UnknownIs404 ==
    resp.route = "get_user_profile" /\ LookupFailed(resp.items[1]) =>
        /\ resp.status = 404
        /\ Contains(resp.body.d.detail.s, "not found")

\* C6 witness: the 404 on an accessor that is already memoized and whose
\* profile slot another endpoint filled.
C6_404AfterOtherEndpoint ==
    /\ resp.route = "get_user_profile"
    /\ LookupFailed(resp.items[1])
    /\ "profile_data" \in resp.items[1].had
    /\ resp.status = 404
    /\ resp.body.d.detail.s = "User not found: " \o LookupErrorText

UserRoutes ==
    {"get_user_profile", "get_user_basic_info", "get_user_presence",
     "get_user_friends_info", "get_user_trophies", "get_user_raw_profile",
     "get_trophy_titles", "get_played_games"}

\* The handler of the last response attempted the account lookup and it
\* raised (the raw profile of a filled slot is returned without a lookup).
LookupAttemptFailed ==
    /\ LookupFailed(resp.items[1])
    /\ resp.route = "get_user_raw_profile" => "profile_data" \notin resp.items[1].had

\* C7: on every route that takes a user identifier a failed account lookup
\* is answered 404 with the exception text in the detail, never 200.
C7_LookupFailureIs404 ==
    resp.route \in UserRoutes /\ LookupAttemptFailed =>
        /\ resp.status = 404
        /\ Contains(resp.body.d.detail.s,
                    IF resp.items[1].lookup = "auth" THEN AuthErrorText
                    ELSE LookupErrorText)

ShortcutKeys(route) ==
    CASE route = "get_user_basic_info" -> BasicKeys
      [] route = "get_user_presence" -> PresenceKeys
      [] route = "get_user_friends_info" -> FriendsKeys
      [] route = "get_user_trophies" -> TrophiesKeys

\* C8: for a user whose account lookup succeeds each shortcut answers 200
\* with exactly its fixed keys, whatever the sub-resources hold.
C8_ShortcutFixedKeys ==
    /\ resp.route \in {"get_user_basic_info", "get_user_presence",
                       "get_user_friends_info", "get_user_trophies"}
    /\ ~LookupFailed(resp.items[1])
    => /\ resp.status = 200
       /\ DOMAIN resp.body.d =
             {ShortcutKeys(resp.route)[i] :
                 i \in DOMAIN ShortcutKeys(resp.route)}

\* The cached identifier whose last use is the oldest.
LeastRecentlyUsed ==
    CHOOSE k \in Keys(cache) :
        \A o \in Keys(cache) : workload.used[k] <= workload.used[o]

C5_Bounded == Len(cache) <= maxsize /\ Cardinality(Keys(cache)) = Len(cache)

C5_Evicts ==
    resp'.route = "get_psn_user" =>
        LET id == resp'.request[1].online_id
        IN IF id \in Keys(cache) THEN Keys(cache') = Keys(cache)
           ELSE IF Len(cache) = maxsize
                THEN Keys(cache') = (Keys(cache) \ {LeastRecentlyUsed}) \cup {id}
                ELSE Keys(cache') = Keys(cache) \cup {id}

\* C5: the memoization never holds more than maxsize entries; a call for a
\* cached identifier evicts nothing; a call for an identifier that is not
\* cached evicts nothing below maxsize entries and, at maxsize entries,
\* exactly the cached identifier whose last use, insertion or hit, is the
\* oldest.
C5_EvictsLeastRecentlyUsed == [](C5_Bounded) /\ [][C5_Evicts]_vars

\* C5 witness: the cache is full, the first identifier was hit and the next
\* new identifier evicted the second identifier instead of it.
C5_HitSurvivesEviction ==
    /\ resp.route = "get_psn_user"
    /\ resp.request[1].online_id = UserId(maxsize + 1)
    /\ Len(cache) = maxsize
    /\ workload.hits = 1
    /\ UserId(1) \in Keys(cache)
    /\ UserId(2) \notin Keys(cache)

Returned(i) == ~constructions[i].raised

\* C10: PSNAWP(npsso) is called at most once; every PSNClient() that returns
\* returns the one instance, which holds the client; a PSNClient() without
\* the credential raises and retains no instance.
C10_OneClientOneInstance ==
    /\ singleton_builds <= 1
    /\ \A i \in DOMAIN constructions :
          /\ Returned(i) =>
                /\ "client" \in DOMAIN constructions[i].v.attrs
                /\ \A j \in DOMAIN constructions :
                      Returned(j) => constructions[j].v = constructions[i].v
          /\ ~Truthy(constructions[i].npsso) /\ ~(\E j \in 1..(i - 1) : Returned(j))
                => constructions[i].raised
    /\ (\A i \in DOMAIN constructions :
           constructions[i].raised /\ ~Truthy(constructions[i].npsso))
          => instance = None

Filled(a) == {slot \in Slots : a[slot] # None}

C11_OnePerId == Cardinality(Keys(cache)) = Len(cache)

C11_SameAccessor ==
    /\ \A i \in DOMAIN cache :
          Filled(cache[i].value) # {} /\ cache[i].key \in Keys(cache') =>
              \A slot \in Filled(cache[i].value) :
                  Peek(cache', cache[i].key)[slot] = cache[i].value[slot]
    /\ resp'.route = "profile" /\ resp'.request[1].online_id \in Keys(cache) =>
          LET a == Peek(cache, resp'.request[1].online_id)
          IN /\ resp'.items[1].had = Filled(a)
             /\ resp'.items[1].had_user = (a.user # None)
             /\ a.profile_data # None => resp'.body = a.profile_data

\* C11: the memoization holds at most one accessor per identifier; while an
\* identifier stays cached a call for it gets the accessor that is stored,
\* with the user and the slots it holds, and no step changes a slot that is
\* filled.
C11_OneAccessorPerWindow == [](C11_OnePerId) /\ [][C11_SameAccessor]_vars

\* C11 witness: in a full cache a read of the raw profile of a cached
\* identifier returns the document its accessor stored at an earlier call.
C11_StoredDocumentServed ==
    /\ resp.route = "profile"
    /\ Len(cache) = maxsize
    /\ workload.hits >= 1
    /\ "profile_data" \in resp.items[1].had
    /\ resp.body \in ProfileDocs
    /\ Served.n_profile = 1

\* C12: get_full_profile on an accessor that holds the user and the four
\* raw structures makes no upstream call: the mapping it returns is the one
\* any assembly on that accessor returns, whatever upstream would answer.
C12_ReassemblyFromCache ==
    /\ resp.route = "get_full_profile"
    /\ resp.items[1].had_user
    /\ resp.items[1].had = Slots
    => \A b \in {Bool(TRUE), Bool(FALSE), Raise} :
           get_full_profile(Served, [NoEnv EXCEPT !.lookup = "ok", !.blocked = b]).v
               = resp.body

\* C13: a request for an identifier whose account lookup fails, through a
\* route or through the get_psn_profile dependency, leaves a new accessor
\* for it in the memoization as the most recently used entry; the entry
\* counts toward maxsize and at maxsize evicts the least recently used
\* entry, a known user's or not; the dependency never answers 404.
C13_UnknownInserted ==
    [][resp' # NoResponse /\ resp'.route \in {"get_user_profile", "get_psn_profile"}
       => /\ resp'.route = "get_psn_profile" => resp'.status # 404
          /\ resp'.route = "get_user_profile" =>
                 LookupFailed(resp'.items[1]) /\ resp'.status = 404
          /\ cache'[Len(cache')] =
                 [key |-> resp'.request[1].online_id,
                  value |-> PSNUserProfile(resp'.request[1].online_id)]
          /\ Len(cache') = IF Len(cache) < maxsize THEN Len(cache) + 1 ELSE maxsize
          /\ Len(cache) = maxsize =>
                 Keys(cache') = (Keys(cache) \ {cache[1].key})
                                \cup {resp'.request[1].online_id}]_vars

\* The request for the hundredth unknown identifier has just evicted the
\* accessor of the known user requested before them.
C13_KnownEvictedByUnknown ==
    /\ resp.route = "get_user_profile"
    /\ resp.status = 404
    /\ Len(cache) = maxsize
    /\ KnownIds \subseteq DOMAIN workload.used
    /\ Keys(cache) \cap KnownIds = {}
    /\ workload.reinserts = 0
    /\ Cardinality(DOMAIN workload.used \ KnownIds) = maxsize

====
